---- MODULE Spec2Model ----
(***************************************************************************)
(* Model of src/todo-config.ts: getTodoConfig(baseDir, todoConfig) and its *)
(* helpers getFromPackageJson, getFromEnvVars and getEnvVar, together with *)
(* the things they read: <baseDir>/package.json on disk, Node's module     *)
(* cache behind require(), and process.env.                                *)
(***************************************************************************)
EXTENDS Integers, Sequences, FiniteSets

VARIABLES
    file,    \* <baseDir>/package.json as it is on disk
    cache,   \* require.cache entry of <baseDir>/package.json
    env,     \* process.env.TODO_DAYS_TO_WARN / TODO_DAYS_TO_ERROR
    called,  \* TRUE when the last step was a getTodoConfig call
    last     \* what the last getTodoConfig call read and produced

vars == <<file, cache, env, called, last>>

\* ------------------------------------------------------------------ bounds

\* day counts the caller passes in todoConfig range over 0..MaxDay
MaxDay == 1
\* environment strings of SpecEnv have at most MaxLen characters
MaxLen == 3

\* ------------------------------------------------------ JavaScript values

\* A property slot of a DaysToDecay-shaped object. "absent": the object has
\* no such own property. "undefined": the property exists and holds
\* undefined. "NaN" is the number NaN; "string" is a non-numeric string.
Absent == [t |-> "absent", n |-> 0]
Undef == [t |-> "undefined", n |-> 0]
NaN == [t |-> "NaN", n |-> 0]
Str == [t |-> "string", n |-> 0]
Num(k) == [t |-> "number", n |-> k]

\* typeof v
TypeOf(v) ==
    IF v.t \in {"number", "NaN"} THEN "number"
    ELSE IF v.t \in {"absent", "undefined"} THEN "undefined"
    ELSE v.t

\* a >= b, reached only when both are typeof 'number'; false when either is NaN
Geq(a, b) == a.t = "number" /\ b.t = "number" /\ a.n >= b.n

\* the slot carries a value (it is neither missing nor undefined)
HasValue(v) == v.t \notin {"absent", "undefined"}

Fields == {"warn", "error"}
EmptyObj == [warn |-> Absent, error |-> Absent]

\* ------------------------------------------------------------ environment

Unset == [set |-> FALSE, str |-> <<>>]
EnvStr(s) == [set |-> TRUE, str |-> s]

WhiteSpace == {" "}
Digits == {"0", "1", "2", "3", "4", "5", "6", "7", "8", "9"}

DigitVal(c) ==
    CASE c = "0" -> 0 [] c = "1" -> 1 [] c = "2" -> 2 [] c = "3" -> 3
      [] c = "4" -> 4 [] c = "5" -> 5 [] c = "6" -> 6 [] c = "7" -> 7
      [] c = "8" -> 8 [] c = "9" -> 9

\* parseInt step: strip leading white space
RECURSIVE TrimStart(_)
TrimStart(s) ==
    IF s # <<>> /\ Head(s) \in WhiteSpace THEN TrimStart(Tail(s)) ELSE s

\* parseInt step: the longest prefix made of radix-10 digits
RECURSIVE DigitPrefix(_)
DigitPrefix(s) ==
    IF s # <<>> /\ Head(s) \in Digits
    THEN <<Head(s)>> \o DigitPrefix(Tail(s))
    ELSE <<>>

\* parseInt step: the mathematical integer value of a digit string
RECURSIVE MathInt(_)
MathInt(z) ==
    IF z = <<>> THEN 0
    ELSE 10 * MathInt(SubSeq(z, 1, Len(z) - 1)) + DigitVal(z[Len(z)])

\* Number.parseInt(s, 10)
ParseInt(s) ==
    LET S == TrimStart(s)
        sign == IF S # <<>> /\ Head(S) = "-" THEN -1 ELSE 1
        body == IF S # <<>> /\ Head(S) \in {"+", "-"} THEN Tail(S) ELSE S
        Z == DigitPrefix(body)
    IN  IF Z = <<>> THEN NaN ELSE Num(sign * MathInt(Z))

\* getEnvVar without the Number.isInteger guard of its caller: see getFromEnvVars
getEnvVar(v) ==
    IF v.set /\ v.str # <<>> THEN ParseInt(v.str) ELSE Undef

\* Number.isInteger(v)
NumberIsInteger(v) == v.t = "number"

\* mutant: typeof v === 'number' in place of Number.isInteger(v)
IntegerSlotLoose(v) == IF TypeOf(v) = "number" THEN v ELSE Absent

\* if (Number.isInteger(x)) { config.f = x; }
IntegerSlot(v) == IF NumberIsInteger(v) THEN v ELSE Absent

getFromEnvVars(e) ==
    [warn |-> IntegerSlot(getEnvVar(e.warn)),
     error |-> IntegerSlot(getEnvVar(e.error))]

\* ------------------------------------------------- package.json and require

\* The value found at pkg.lintTodo.daysToDecay: "undefined" when there is no
\* such path, "null" for a JSON null, "object" for an object with slots.
UndefinedD == [kind |-> "undefined", obj |-> EmptyObj]
NullD == [kind |-> "null", obj |-> EmptyObj]
ObjD(o) == [kind |-> "object", obj |-> o]

\* A parsed package.json: whether it has a lintTodo object, and what that
\* object holds under daysToDecay.
NoLintTodo == [lintTodo |-> FALSE, daysToDecay |-> UndefinedD]
LintTodo(d) == [lintTodo |-> TRUE, daysToDecay |-> d]

Missing == [st |-> "missing", pkg |-> NoLintTodo]
Unparseable == [st |-> "unparseable", pkg |-> NoLintTodo]
Json(p) == [st |-> "json", pkg |-> p]

NotLoaded == [loaded |-> FALSE, pkg |-> NoLintTodo]
Loaded(p) == [loaded |-> TRUE, pkg |-> p]

\* require(join(basePath, 'package.json')): the module cache answers when it
\* holds the path; otherwise the file is read and parsed, and a missing or
\* unparseable file throws.
Require(c, f) ==
    IF c.loaded THEN [ok |-> TRUE, pkg |-> c.pkg]
    ELSE IF f.st = "json" THEN [ok |-> TRUE, pkg |-> f.pkg]
    ELSE [ok |-> FALSE, pkg |-> NoLintTodo]

\* mutant: the cache is refreshed from disk after it has answered
RequireCacheRefresh(c, f) ==
    IF f.st = "json" THEN Loaded(f.pkg) ELSE c

\* the module cache after the require: a successful load is kept for good,
\* a failed one leaves no entry
RequireCache(c, f) ==
    IF c.loaded THEN c
    ELSE IF f.st = "json" THEN Loaded(f.pkg)
    ELSE c

\* try { pkg = require(...) } catch {}  return pkg?.lintTodo?.daysToDecay
getFromPackageJson(c, f) ==
    LET r == Require(c, f)
    IN  IF ~r.ok THEN UndefinedD
        ELSE IF ~r.pkg.lintTodo THEN UndefinedD
        ELSE r.pkg.daysToDecay

\* ----------------------------------------------------------- getTodoConfig

DefaultWarn == 30
DefaultError == 60
DefaultConfig == [warn |-> Num(DefaultWarn), error |-> Num(DefaultError)]

\* the todoConfig argument: left out (the default parameter {} applies) or
\* an object
Omitted == [given |-> FALSE, obj |-> EmptyObj]
Given(o) == [given |-> TRUE, obj |-> o]
DefaultParam(tc) == IF tc.given THEN tc.obj ELSE EmptyObj

\* one source of Object.assign: every own property of the source is copied,
\* whatever its value
Assign(target, source) ==
    [f \in Fields |-> IF source[f].t # "absent" THEN source[f] ELSE target[f]]

\* Object.assign skips a source that is undefined or null
AssignFrom(target, d) ==
    IF d.kind = "object" THEN Assign(target, d.obj) ELSE target

\* Object.assign({}, daysToDecayPackageConfig, daysToDecayEnvVars, todoConfig)
MergedConfig(pkgConfig, envConfig, todoConfig) ==
    Assign(Assign(AssignFrom(EmptyObj, pkgConfig), envConfig), todoConfig)

\* Object.keys(o).length
ObjectKeysLength(o) == Cardinality({f \in Fields : o[f].t # "absent"})

\* mutant: || in place of &&
NeedsDefaultEither(mergedConfig, pkgConfig) ==
    ObjectKeysLength(mergedConfig) = 0 \/ pkgConfig.kind = "undefined"

\* Object.keys(mergedConfig).length === 0 &&
\*   typeof daysToDecayPackageConfig === 'undefined'
NeedsDefault(mergedConfig, pkgConfig) ==
    ObjectKeysLength(mergedConfig) = 0 /\ pkgConfig.kind = "undefined"

\* mutant: the two operands of >= exchanged
InvalidSwapped(c) ==
    /\ TypeOf(c.warn) = "number"
    /\ TypeOf(c.error) = "number"
    /\ Geq(c.error, c.warn)

\* mutant: > in place of >=
InvalidStrict(c) ==
    /\ TypeOf(c.warn) = "number"
    /\ TypeOf(c.error) = "number"
    /\ Geq(c.warn, c.error) /\ c.warn # c.error

\* typeof warn === 'number' && typeof error === 'number' && warn >= error
Invalid(c) ==
    /\ TypeOf(c.warn) = "number"
    /\ TypeOf(c.error) = "number"
    /\ Geq(c.warn, c.error)

Return(c) == [kind |-> "return", warn |-> c.warn, error |-> c.error]
\* the Error thrown; its message quotes mergedConfig.warn and mergedConfig.error
Throw(c) == [kind |-> "throw", warn |-> c.warn, error |-> c.error]

\* mergedConfig as the validation sees it: the merge, or the default in its
\* place
FinalConfig(pkgConfig, envConfig, tc) ==
    LET mergedConfig == MergedConfig(pkgConfig, envConfig, DefaultParam(tc))
    IN  IF NeedsDefault(mergedConfig, pkgConfig)
        THEN DefaultConfig ELSE mergedConfig

\* the body of getTodoConfig from the three partial configurations on
Resolve(pkgConfig, envConfig, tc) ==
    LET final == FinalConfig(pkgConfig, envConfig, tc)
    IN  IF Invalid(final) THEN Throw(final) ELSE Return(final)

\* the outcome of getTodoConfig(baseDir, tc) with the disk, module cache and
\* environment as given
getTodoConfig(c, f, e, tc) ==
    Resolve(getFromPackageJson(c, f), getFromEnvVars(e), tc)

\* ------------------------------------------------------------ input domains

Days == 0 .. MaxDay

\* What a package.json may hold under daysToDecay: each slot missing, a
\* string, or the number of the documented example; and the example with its
\* two numbers swapped.
ExampleWarn == 5
ExampleError == 10
ManifestObjs ==
    [warn : {Absent, Str, Num(ExampleWarn)},
     error : {Absent, Str, Num(ExampleError)}]
        \cup {[warn |-> Num(ExampleError), error |-> Num(ExampleWarn)]}
Packages ==
    {NoLintTodo, LintTodo(UndefinedD), LintTodo(NullD)}
        \cup {LintTodo(ObjD(o)) : o \in ManifestObjs}

\* what a caller may pass in a todoConfig slot
OverrideSlots == {Absent, Undef, NaN} \cup {Num(d) : d \in Days}
Overrides ==
    {Omitted} \cup {Given(o) : o \in [warn : OverrideSlots, error : OverrideSlots]}

\* values the environment variables take in Spec
EnvStrings == {<<"a", "b", "c">>, <<"7", "x">>}
EnvValues == {Unset} \cup {EnvStr(s) : s \in EnvStrings}

\* ------------------------------------------------------------------ actions

NoOutcome == [kind |-> "none", warn |-> Absent, error |-> Absent]
NoCall ==
    [todoConfig |-> Omitted, pkgConfig |-> UndefinedD, envConfig |-> EmptyObj,
     outcome |-> NoOutcome, repeat |-> FALSE]

Init ==
    /\ file = Missing
    /\ cache = NotLoaded
    /\ env = [warn |-> Unset, error |-> Unset]
    /\ called = FALSE
    /\ last = NoCall

\* one call of getTodoConfig(baseDir, tc)
GetTodoConfig(tc) ==
    /\ last' = [todoConfig |-> tc,
                pkgConfig |-> getFromPackageJson(cache, file),
                envConfig |-> getFromEnvVars(env),
                outcome |-> getTodoConfig(cache, file, env, tc),
                \* the call before this one had the same argument, and
                \* nothing was changed in between
                repeat |-> called /\ last.todoConfig = tc]
    /\ cache' = RequireCache(cache, file)
    /\ called' = TRUE
    /\ UNCHANGED <<file, env>>

\* the environment of the program: package.json is written, broken or deleted
WritePackageJson(p) ==
    /\ file' = Json(p)
    /\ called' = FALSE
    /\ last' = NoCall
    /\ UNCHANGED <<cache, env>>

CorruptPackageJson ==
    /\ file' = Unparseable
    /\ called' = FALSE
    /\ last' = NoCall
    /\ UNCHANGED <<cache, env>>

DeletePackageJson ==
    /\ file' = Missing
    /\ called' = FALSE
    /\ last' = NoCall
    /\ UNCHANGED <<cache, env>>

\* the environment of the program: an environment variable is set or unset
SetEnv(name, v) ==
    /\ env' = [env EXCEPT ![name] = v]
    /\ called' = FALSE
    /\ last' = NoCall
    /\ UNCHANGED <<file, cache>>

Next ==
    \/ \E tc \in Overrides : GetTodoConfig(tc)
    \/ \E p \in Packages : WritePackageJson(p)
    \/ CorruptPackageJson
    \/ DeletePackageJson
    \/ \E name \in Fields, v \in EnvValues : SetEnv(name, v)

Spec == Init /\ [][Next]_vars

\* ------------------------------------------- environment strings at large

Alphabet == {"0", "1", "5", "a", "x", "-", "+", " "}

\* every string over Alphabet of at most n characters
RECURSIVE StringsUpTo(_)
StringsUpTo(n) ==
    IF n = 0 THEN {<<>>}
    ELSE LET shorter == StringsUpTo(n - 1)
         IN  shorter \cup {<<c>> \o s : c \in Alphabet, s \in {t \in shorter : Len(t) = n - 1}}

AllEnvValues == {Unset} \cup {EnvStr(s) : s \in StringsUpTo(MaxLen)}

\* one variable holds any string of at most MaxLen characters, the other one
\* of the values of Spec
InitEnv ==
    /\ file = Missing
    /\ cache = NotLoaded
    /\ \/ env \in [warn : AllEnvValues, error : EnvValues]
       \/ env \in [warn : EnvValues, error : AllEnvValues]
    /\ called = FALSE
    /\ last = NoCall

NextEnv == GetTodoConfig(Omitted)

SpecEnv == InitEnv /\ [][NextEnv]_vars

\* ------------------------------------------------------------------ claims

\* what the claims call the three sources, taken at the time of the call
\* the manifest: what package.json on disk declares under lintTodo.daysToDecay
ManifestOnDisk ==
    IF file.st = "json" /\ file.pkg.lintTodo THEN file.pkg.daysToDecay
    ELSE UndefinedD
\* the override: the todoConfig argument, {} when it is left out
OverrideGiven == IF last.todoConfig.given THEN last.todoConfig.obj ELSE EmptyObj
\* a slot of a source as the claims see it: set when it carries a value
SourceSlot(d, f) ==
    IF d.kind = "object" /\ HasValue(d.obj[f]) THEN d.obj[f] ELSE Absent
\* the value of the highest-ranked source that sets f: override, then
\* environment, then manifest m
Highest(m, f) ==
    IF HasValue(OverrideGiven[f]) THEN OverrideGiven[f]
    ELSE IF HasValue(last.envConfig[f]) THEN last.envConfig[f]
    ELSE SourceSlot(m, f)
\* a < b as JavaScript decides it for the values of the model
Lt(a, b) == a.t = "number" /\ b.t = "number" /\ a.n < b.n

\* C1: when a call returns and the default is not applied, each of warn and
\* error is the value of the highest-ranked source that sets it (override,
\* then environment, then the manifest on disk), and is without a value only
\* when no source sets it.
C1_Precedence ==
    (/\ called
     /\ last.outcome.kind = "return"
     /\ ~(ManifestOnDisk.kind = "undefined"
            /\ \A f \in Fields : ~HasValue(Highest(ManifestOnDisk, f))))
        => \A f \in Fields :
              IF HasValue(Highest(ManifestOnDisk, f))
              THEN last.outcome[f] = Highest(ManifestOnDisk, f)
              ELSE ~HasValue(last.outcome[f])

\* C2: a call made while package.json is missing, unparseable or without
\* lintTodo.daysToDecay, while no environment variable contributes a field
\* and with an empty or omitted override, returns {warn: 30, error: 60}.
C2_NoSourcesDefault ==
    (/\ called
     /\ ManifestOnDisk.kind = "undefined"
     /\ getFromEnvVars(env) = EmptyObj
     /\ OverrideGiven = EmptyObj)
        => last.outcome = Return(DefaultConfig)

\* C3: a call made while package.json declares lintTodo.daysToDecay as an
\* empty object, while no environment variable contributes a field and with
\* an empty or omitted override, returns {} and not the default.
C3_OptOutRespected ==
    (/\ called
     /\ ManifestOnDisk = ObjD(EmptyObj)
     /\ getFromEnvVars(env) = EmptyObj
     /\ OverrideGiven = EmptyObj)
        => last.outcome = Return(EmptyObj)

\* C4: a call throws exactly when the final merged configuration holds two
\* numbers with warn >= error, and the error then carries both of them; every
\* other call returns.
C4_ThrowsIffInvalidOrder ==
    called =>
        LET final == FinalConfig(last.pkgConfig, last.envConfig, last.todoConfig)
            bad == /\ final.warn.t = "number"
                   /\ final.error.t = "number"
                   /\ final.warn.n >= final.error.n
        IN  /\ last.outcome.kind = (IF bad THEN "throw" ELSE "return")
            /\ bad => /\ last.outcome.warn = final.warn
                      /\ last.outcome.error = final.error

\* a call threw although the manifest was unreadable and warn equals error
C4_Witness ==
    /\ called
    /\ last.outcome.kind = "throw"
    /\ last.outcome.warn = last.outcome.error
    /\ file = Unparseable

\* C5 as stated: every record returned with both fields present has
\* warn < error.
C5_ReturnedOrdered ==
    (/\ called
     /\ last.outcome.kind = "return"
     /\ HasValue(last.outcome.warn)
     /\ HasValue(last.outcome.error))
        => Lt(last.outcome.warn, last.outcome.error)

\* C5 amended: every record returned with both fields present as numbers
\* other than NaN has warn < error.
C5_ReturnedNumbersOrdered ==
    (/\ called
     /\ last.outcome.kind = "return"
     /\ last.outcome.warn.t = "number"
     /\ last.outcome.error.t = "number")
        => last.outcome.warn.n < last.outcome.error.n

\* a call returned two numbers that came from different sources
C5_Witness ==
    /\ called
    /\ last.outcome.kind = "return"
    /\ last.outcome.warn.t = "number"
    /\ last.outcome.error.t = "number"
    /\ OverrideGiven.warn = last.outcome.warn
    /\ last.envConfig.error = last.outcome.error

\* C6: when the merge of the three partial configurations has a field set,
\* the call's outcome carries exactly the merged fields, a field no source
\* sets is not filled with 30 or 60, and a merge with a field missing is
\* returned without an ordering error.
C6_PartialNotCompleted ==
    called =>
        LET merged == MergedConfig(last.pkgConfig, last.envConfig, OverrideGiven)
        IN  (\E f \in Fields : HasValue(merged[f])) =>
                /\ last.outcome.warn = merged.warn
                /\ last.outcome.error = merged.error
                /\ (\E f \in Fields : ~HasValue(merged[f]))
                        => last.outcome.kind = "return"

\* no manifest, no environment, the override sets warn alone: {warn} returned
C6_Witness ==
    /\ called
    /\ last.pkgConfig.kind = "undefined"
    /\ last.envConfig = EmptyObj
    /\ last.outcome.kind = "return"
    /\ last.outcome.warn.t = "number"
    /\ last.outcome.error = Absent

\* C7, the claim's reading of "parses as a base-10 integer": leading white
\* space, an optional sign, then the longest run of digits, which is not empty
RECURSIVE Pow10(_)
Pow10(k) == IF k = 0 THEN 1 ELSE 10 * Pow10(k - 1)
RECURSIVE SumDigits(_, _, _)
SumDigits(s, from, to) ==
    IF from > to THEN 0
    ELSE DigitVal(s[from]) * Pow10(to - from) + SumDigits(s, from + 1, to)
LeadingIntegers(s) ==
    {(IF sg = 1 /\ s[i + 1] = "-" THEN -1 ELSE 1) * SumDigits(s, i + sg + 1, j) :
        <<i, sg, j>> \in
            {t \in (0 .. Len(s)) \X {0, 1} \X (1 .. Len(s)) :
                /\ \A k \in 1 .. t[1] : s[k] \in WhiteSpace
                /\ t[2] = 1 => (t[1] + 1 <= Len(s) /\ s[t[1] + 1] \in {"+", "-"})
                /\ t[1] + t[2] + 1 <= t[3]
                /\ \A k \in (t[1] + t[2] + 1) .. t[3] : s[k] \in Digits
                /\ t[3] = Len(s) \/ s[t[3] + 1] \notin Digits}}

\* C7: for each of the two variables, the environment partial of a call holds
\* the parsed integer when the variable is set to a string with a leading
\* integer, and has no such field when the variable is unset or its value has
\* none.
C7_EnvPartial ==
    called =>
        \A f \in Fields :
            LET ints == IF env[f].set THEN LeadingIntegers(env[f].str) ELSE {}
            IN  IF ints = {}
                THEN last.envConfig[f] = Absent
                ELSE \E n \in ints : last.envConfig[f] = Num(n)

\* one call saw "10x" for warn and a string without digits for error
C7_Witness ==
    /\ called
    /\ env.warn = EnvStr(<<"1", "0", "x">>)
    /\ env.error = EnvStr(<<"a", "b", "c">>)
    /\ last.envConfig = [warn |-> Num(10), error |-> Absent]

C9_NoCaching ==
    called => last.outcome = getTodoConfig(NotLoaded, file, env, last.todoConfig)

\* C10: an override field given as undefined neither replaces the value the
\* environment or the manifest read by the call supplies, nor counts as a
\* field when the default rule looks for an empty merge.
C10_UndefinedSkipped ==
    called =>
        LET lower == MergedConfig(last.pkgConfig, last.envConfig, EmptyObj)
            final == FinalConfig(last.pkgConfig, last.envConfig, last.todoConfig)
        IN  /\ \A f \in Fields :
                (OverrideGiven[f] = Undef /\ HasValue(lower[f]))
                    => final[f] = lower[f]
            /\ (/\ \A f \in Fields : ~HasValue(OverrideGiven[f])
                /\ lower = EmptyObj
                /\ last.pkgConfig.kind = "undefined")
                    => last.outcome = Return(DefaultConfig)

====
